---- MODULE Spec2Model ----
(***************************************************************************)
(* Model of scripts/enchant_to_databox.py: a batch job that pages through  *)
(* the closed tickets of a helpdesk API, folds them into yearly and        *)
(* monthly accumulators, appends optional CSAT rows from a CSV file and    *)
(* pushes one payload to the dashboard ingestion API.                      *)
(*                                                                         *)
(* Conventions of the model                                                *)
(*   - a Python str is a sequence of one-character strings;                *)
(*   - an instant is an integer number of minutes since                    *)
(*     2025-01-01T00:00:00Z (the sampled timestamps have zero seconds and  *)
(*     lie between December 2024 and the end of 2027, where the calendar   *)
(*     below is exact);                                                    *)
(*   - a float holding minutes or a percentage is an integer number of     *)
(*     hundredths once it has been through round(x, 2).                    *)
(***************************************************************************)
EXTENDS Integers, Sequences, FiniteSets, TLC

(***************************************************************************)
(* Bounds of the model.                                                    *)
(***************************************************************************)
\* Number of non-empty pages the ticket API serves before it only answers
\* with an empty page, a 429 or an error.
MaxPages == 2
\* Length of the free suffix of the tag names fed to slugify_tag.
MaxTail == 3

(***************************************************************************)
(* Program constants.                                                      *)
(***************************************************************************)
\* [:60] in slugify_tag
SlugMax == 60
\* [:10] in the top-tags loop
TopN == 10
None == [ok |-> FALSE, t |-> 0]

Min(a, b) == IF a < b THEN a ELSE b
Max(a, b) == IF a > b THEN a ELSE b

(***************************************************************************)
(* Characters.                                                             *)
(***************************************************************************)
UpperSeq == <<"A","B","C","D","E","F","G","H","I","J","K","L","M",
              "N","O","P","Q","R","S","T","U","V","W","X","Y","Z">>
LowerSeq == <<"a","b","c","d","e","f","g","h","i","j","k","l","m",
              "n","o","p","q","r","s","t","u","v","w","x","y","z">>
DigitSeq == <<"0","1","2","3","4","5","6","7","8","9">>

Range(s) == {s[i] : i \in DOMAIN s}

\* str.lower() on one (ASCII) character
LowerMap == [c \in Range(UpperSeq) |->
                LowerSeq[CHOOSE i \in DOMAIN UpperSeq : UpperSeq[i] = c]]
LowerChar(c) == IF c \in DOMAIN LowerMap THEN LowerMap[c] ELSE c

\* str.lower()
Lower(s) == [i \in DOMAIN s |-> LowerChar(s[i])]

\* the character class [a-z0-9]
SlugChars == Range(LowerSeq) \cup Range(DigitSeq)
IsSlugChar(c) == c \in SlugChars

\* re.sub(r"[^a-z0-9]+", "_", s): every maximal run of characters outside
\* [a-z0-9] becomes one underscore
RECURSIVE SkipRun(_)
SkipRun(s) ==
    IF s = <<>> \/ IsSlugChar(Head(s)) THEN s ELSE SkipRun(Tail(s))

RECURSIVE ReSub(_)
ReSub(s) ==
    IF s = <<>> THEN <<>>
    ELSE IF IsSlugChar(Head(s)) THEN <<Head(s)>> \o ReSub(Tail(s))
    ELSE <<"_">> \o ReSub(SkipRun(Tail(s)))

\* str.strip("_")
RECURSIVE LStrip(_)
LStrip(s) == IF s # <<>> /\ Head(s) = "_" THEN LStrip(Tail(s)) ELSE s

RECURSIVE RStrip(_)
RStrip(s) ==
    IF s # <<>> /\ s[Len(s)] = "_" THEN RStrip(SubSeq(s, 1, Len(s) - 1)) ELSE s

Strip(s) == RStrip(LStrip(s))

\* s[:n]
Prefix(s, n) == SubSeq(s, 1, Min(n, Len(s)))

\* slugify_tag: lower, substitute, strip, truncate, placeholder
slugify_tag(name) ==
    LET out == Prefix(Strip(ReSub(Lower(name))), SlugMax)
    IN  IF out = <<>> THEN <<"t","a","g">> ELSE out

(***************************************************************************)
(* Timestamps.                                                             *)
(***************************************************************************)
\* First day of each month, counted from 1 January, in a year of 365 days
\* (2025, 2026 and 2027).
MonthStartDay == <<0, 31, 59, 90, 120, 151, 181, 212, 243, 273, 304, 334>>

MinPerDay == 24 * 60
MinPerYear == 365 * MinPerDay

\* dt.year and dt.month of an instant (December 2024 for the negative ones)
YearOf(t) == IF t < 0 THEN 2024 ELSE 2025 + (t \div MinPerYear)
MonthOf(t) ==
    IF t < 0 THEN 12
    ELSE LET d == (t % MinPerYear) \div MinPerDay
         IN  Cardinality({i \in 1..12 : MonthStartDay[i] <= d})

Digit(n) == DigitSeq[n + 1]
\* strftime's %Y and %m
Pad4(n) == <<Digit(n \div 1000), Digit((n \div 100) % 10),
             Digit((n \div 10) % 10), Digit(n % 10)>>
Pad2(n) == <<Digit((n \div 10) % 10), Digit(n % 10)>>

\* the text "-01T00:00:00Z" that ends every month key
MonthSuffix == <<"-","0","1","T","0","0",":","0","0",":","0","0","Z">>

\* a timestamp field of a ticket as the API sends it: absent or empty
\* ("none"), a string strptime rejects ("bad"), or the ISO text of instant t
NoStamp == [k |-> "none", t |-> 0]
BadStamp == [k |-> "bad", t |-> 0]
Iso(t) == [k |-> "iso", t |-> t]

\* parse_iso_z: None for a falsy or unparseable value
parse_iso_z(s) == IF s.k = "iso" THEN [ok |-> TRUE, t |-> s.t] ELSE None

YEAR_START_ISO == Iso(0)
year_start_dt == parse_iso_z(YEAR_START_ISO)

\* iso_now_z, parsed: the instant of the run, 2026-11-03T00:00:00Z
NowT == MinPerYear + (304 + 2) * MinPerDay

\* month_floor_iso: "YYYY-MM-01T00:00:00Z" of the month of instant t
month_floor_iso(t) ==
    Pad4(YearOf(t)) \o <<"-">> \o Pad2(MonthOf(t)) \o MonthSuffix

\* Faulty variant of minutes_between: a missing created_at is taken to be
\* the update instant, which gives a duration of zero.
minutes_between_lenient(created_at, updated_at) ==
    LET c == parse_iso_z(created_at)
        u == parse_iso_z(updated_at)
    IN  IF ~u.ok THEN None
        ELSE IF ~c.ok THEN [ok |-> TRUE, t |-> 0]
        ELSE [ok |-> TRUE, t |-> Max(0, u.t - c.t)]

\* minutes_between: None when either side does not parse, else the
\* difference clamped at zero
minutes_between(created_at, updated_at) ==
    LET c == parse_iso_z(created_at)
        u == parse_iso_z(updated_at)
    IN  IF ~c.ok \/ ~u.ok THEN None
        ELSE [ok |-> TRUE, t |-> Max(0, u.t - c.t)]

(***************************************************************************)
(* String order (Python compares str by code point).                       *)
(***************************************************************************)
OrdSeq == <<" ", "-", "/">> \o DigitSeq \o <<":">> \o UpperSeq \o <<"_">> \o LowerSeq
OrdMap == [c \in Range(OrdSeq) |-> CHOOSE i \in DOMAIN OrdSeq : OrdSeq[i] = c]
Ord(c) == OrdMap[c]

RECURSIVE StrLess(_, _)
StrLess(a, b) ==
    IF b = <<>> THEN FALSE
    ELSE IF a = <<>> THEN TRUE
    ELSE IF Head(a) = Head(b) THEN StrLess(Tail(a), Tail(b))
    ELSE Ord(Head(a)) < Ord(Head(b))

\* Faulty variant of SortedKeys: sorted(..., reverse=True).
RECURSIVE SortedKeysReverse(_)
SortedKeysReverse(S) ==
    IF S = {} THEN <<>>
    ELSE LET hi == CHOOSE x \in S : \A y \in S \ {x} : StrLess(y, x)
         IN  <<hi>> \o SortedKeysReverse(S \ {hi})

\* sorted(d.keys()) for a dict with str keys
RECURSIVE SortedKeys(_)
SortedKeys(S) ==
    IF S = {} THEN <<>>
    ELSE LET lo == CHOOSE x \in S : \A y \in S \ {x} : StrLess(x, y)
         IN  <<lo>> \o SortedKeys(S \ {lo})

(***************************************************************************)
(* Aggregation (the body of the loop over iter_closed_2025).               *)
(***************************************************************************)
EXCLUDED_TAGS == { <<"S","U">>, <<"C","o","r","e"," ","S","u","p","p","o","r","t">> }

\* d[k] += v on a defaultdict
Bump(d, k, v) == IF k \in DOMAIN d THEN [d EXCEPT ![k] = @ + v] ELSE d @@ (k :> v)

\* tag_counts is a dict, which keeps insertion order: a sequence of
\* [name, cnt].  tag_counts[name] = tag_counts.get(name, 0) + 1
IncTag(tc, name) ==
    IF \E i \in DOMAIN tc : tc[i].name = name
    THEN [i \in DOMAIN tc |->
            IF tc[i].name = name THEN [tc[i] EXCEPT !.cnt = @ + 1] ELSE tc[i]]
    ELSE Append(tc, [name |-> name, cnt |-> 1])

\* Faulty variant of CountLabel: the test against EXCLUDED_TAGS is left out.
CountLabelNoExclusion(tc, name) ==
    IF name = <<>> THEN tc ELSE IncTag(tc, name)

\* One label of a ticket.  A label is modelled by the name the code reads
\* from it (raw.get("name") of a dict, str(raw) otherwise); <<>> stands
\* for a missing or empty name.
CountLabel(tc, name) ==
    IF name = <<>> \/ name \in EXCLUDED_TAGS THEN tc ELSE IncTag(tc, name)

\* for raw in labels: ...
RECURSIVE CountLabels(_, _)
CountLabels(tc, labels) ==
    IF labels = <<>> THEN tc
    ELSE CountLabels(CountLabel(tc, Head(labels)), Tail(labels))

\* The test a ticket passes before anything is counted.
Counted(t) ==
    /\ t.state = "closed"
    /\ parse_iso_z(t.updated_at).ok
    /\ ~(parse_iso_z(t.updated_at).t < year_start_dt.t)

\* Faulty variant of aggregate: resolved_total is incremented before the
\* test of updated_at instead of after it.
aggregate_count_first(acc, t) ==
    IF t.state # "closed" THEN acc
    ELSE IF ~Counted(t) THEN [acc EXCEPT !.resolved_total = @ + 1]
    ELSE LET u == parse_iso_z(t.updated_at)
             m == minutes_between(t.created_at, t.updated_at)
             mon_iso == month_floor_iso(u.t)
         IN  [resolved_total  |-> acc.resolved_total + 1,
              res_minutes_all |-> IF m.ok THEN Append(acc.res_minutes_all, m.t)
                                  ELSE acc.res_minutes_all,
              tag_counts      |-> CountLabels(acc.tag_counts, t.labels),
              m_counts        |-> Bump(acc.m_counts, mon_iso, 1),
              m_res_sum       |-> IF m.ok THEN Bump(acc.m_res_sum, mon_iso, m.t)
                                  ELSE acc.m_res_sum,
              m_res_n         |-> IF m.ok THEN Bump(acc.m_res_n, mon_iso, 1)
                                  ELSE acc.m_res_n]

\* One iteration of the loop on ticket t, from accumulators acc.
aggregate(acc, t) ==
    IF ~Counted(t) THEN acc
    ELSE LET u == parse_iso_z(t.updated_at)
             m == minutes_between(t.created_at, t.updated_at)
             mon_iso == month_floor_iso(u.t)
         IN  [resolved_total  |-> acc.resolved_total + 1,
              res_minutes_all |-> IF m.ok THEN Append(acc.res_minutes_all, m.t)
                                  ELSE acc.res_minutes_all,
              tag_counts      |-> CountLabels(acc.tag_counts, t.labels),
              m_counts        |-> Bump(acc.m_counts, mon_iso, 1),
              m_res_sum       |-> IF m.ok THEN Bump(acc.m_res_sum, mon_iso, m.t)
                                  ELSE acc.m_res_sum,
              m_res_n         |-> IF m.ok THEN Bump(acc.m_res_n, mon_iso, 1)
                                  ELSE acc.m_res_n]

(***************************************************************************)
(* Payload.                                                                *)
(***************************************************************************)
RECURSIVE SumSeq(_)
SumSeq(s) == IF s = <<>> THEN 0 ELSE Head(s) + SumSeq(Tail(s))

\* round(num / den, 2), in hundredths (ties to even)
Round2(num, den) ==
    LET q == (100 * num) \div den
        r == (100 * num) % den
    IN  IF 2 * r < den THEN q
        ELSE IF 2 * r > den THEN q + 1
        ELSE IF q % 2 = 0 THEN q ELSE q + 1

\* avg_resolution_year, in hundredths of a minute
avg_resolution_year(mins) ==
    IF mins = <<>> THEN 0 ELSE Round2(SumSeq(mins), Len(mins))

\* A metric record.  slug is the tag slug inside a tag key and date the
\* "date" field; <<>> where the record has none.
Rec(key, slug, value, date) ==
    [key |-> key, slug |-> slug, value |-> value, date |-> date]

\* sorted(items, key=cnt, reverse=True): stable, so equal counts keep
\* their insertion order
RECURSIVE InsertDesc(_, _)
InsertDesc(sorted, x) ==
    IF sorted = <<>> THEN <<x>>
    ELSE IF Head(sorted).cnt >= x.cnt THEN <<Head(sorted)>> \o InsertDesc(Tail(sorted), x)
    ELSE <<x>> \o sorted

RECURSIVE SortDesc(_)
SortDesc(tc) ==
    IF tc = <<>> THEN <<>>
    ELSE InsertDesc(SortDesc(SubSeq(tc, 1, Len(tc) - 1)), tc[Len(tc)])

\* sorted(tag_counts.items(), ...)[:10]
TopTags(tc) == Prefix(SortDesc(tc), TopN)

TagRecs(tc) ==
    [i \in DOMAIN TopTags(tc) |->
        Rec("enchant_tag__2025_count", slugify_tag(TopTags(tc)[i].name),
            TopTags(tc)[i].cnt, <<>>)]

MonthlyCountRecs(mc) ==
    LET ks == SortedKeys(DOMAIN mc)
    IN  [i \in DOMAIN ks |-> Rec("enchant_resolved_monthly", <<>>, mc[ks[i]], ks[i])]

MonthlyAvgRecs(msum, mn) ==
    LET ks == SortedKeys(DOMAIN mn)
    IN  [i \in DOMAIN ks |->
            Rec("enchant_resolution_minutes_avg_monthly", <<>>,
                Round2(msum[ks[i]], mn[ks[i]]), ks[i])]

\* The payload as built before the CSAT rows are appended.
BuildPayload(acc) ==
    << Rec("enchant_resolved_2025_total", <<>>, acc.resolved_total, <<>>),
       Rec("enchant_resolution_minutes_avg_2025", <<>>,
           avg_resolution_year(acc.res_minutes_all), <<>>) >>
    \o TagRecs(acc.tag_counts)
    \o MonthlyCountRecs(acc.m_counts)
    \o MonthlyAvgRecs(acc.m_res_sum, acc.m_res_n)

(***************************************************************************)
(* CSAT rows from the CSV file.                                            *)
(***************************************************************************)
\* str.strip() (the sampled dates hold no other whitespace than spaces)
RECURSIVE LStripSp(_)
LStripSp(s) == IF s # <<>> /\ Head(s) = " " THEN LStripSp(Tail(s)) ELSE s

RECURSIVE RStripSp(_)
RStripSp(s) ==
    IF s # <<>> /\ s[Len(s)] = " " THEN RStripSp(SubSeq(s, 1, Len(s) - 1)) ELSE s

\* to_month_iso: the first seven characters of the stripped text, else
\* January 2025
to_month_iso(s) ==
    LET x == RStripSp(LStripSp(s))
    IN  IF Len(x) >= 7 THEN Prefix(x, 7) \o MonthSuffix
        ELSE <<"2","0","2","5","-","0","1">> \o MonthSuffix

\* The rows of the file, folded as the for loop does.  A row is
\*   "value": one of the csat columns holds the float pct (in hundredths),
\*   "skip":  none does (absent, "", "NaN" or not a number),
\*   "error": the reader raises while producing it (csv.Error, a decoding
\*            or an I/O error).
\* The result is the payload and csat_vals when the loop ends or raises.
RECURSIVE CsatRows(_, _, _)
CsatRows(pl, vals, rows) ==
    IF rows = <<>> THEN [payload |-> pl, vals |-> vals, raised |-> FALSE]
    ELSE LET row == Head(rows)
         IN  CASE row.kind = "error" ->
                    [payload |-> pl, vals |-> vals, raised |-> TRUE]
               [] row.kind = "skip" -> CsatRows(pl, vals, Tail(rows))
               [] OTHER ->
                    CsatRows(Append(pl, Rec("enchant_csat_avg_monthly", <<>>,
                                            row.pct, to_month_iso(row.date))),
                             Append(vals, row.pct), Tail(rows))

\* push_csat_from_csv_if_present(payload): the payload it leaves.
\* src.path is "unset" (CSAT_CSV empty), "missing" (os.path.exists is
\* false), "unreadable" (open raises) or "file".
push_csat_from_csv_if_present(pl, src) ==
    IF src.path \in {"unset", "missing", "unreadable"} THEN pl
    ELSE LET r == CsatRows(pl, <<>>, src.rows)
         IN  IF ~r.raised /\ r.vals # <<>>
             THEN Append(r.payload,
                         Rec("enchant_csat_avg_2025", <<>>,
                             Round2(SumSeq(r.vals), 100 * Len(r.vals)), <<>>))
             ELSE r.payload

(***************************************************************************)
(* HTTP.                                                                   *)
(***************************************************************************)
\* Faulty variant of raise_for_status: the call is left out.
raise_never(status) == FALSE

\* Response.raise_for_status(): raises for 4xx and 5xx
raise_for_status(status) == status >= 400 /\ status < 600

\* Faulty variant of RetryPage: the retry asks for the next page.
RetryPageAdvance(page) == page + 1

\* The page number of the request repeated after a 429: params is reused.
RetryPage(page) == page

\* items = r.json() if isinstance(r.json(), list) else []
\* body.kind is "list", "other" (JSON that is not a list) or "invalid"
\* (r.json() raises)
ItemsOf(body) == IF body.kind = "list" THEN body.items ELSE <<>>

(***************************************************************************)
(* Inputs: what the two servers and the file system may answer.            *)
(***************************************************************************)
Bug == <<"B","u","g">>
UI == <<"U","I">>
SU == <<"S","U">>
CoreSupport == <<"C","o","r","e"," ","S","u","p","p","o","r","t">>
\* ten more tag names, "t0" .. "t9"
TagNo(i) == <<"t", Digit(i)>>

Tk(state, created_at, updated_at, labels) ==
    [state |-> state, created_at |-> created_at,
     updated_at |-> updated_at, labels |-> labels]

Feb2025 == 31 * MinPerDay
Dec2025 == 334 * MinPerDay
Jan2026 == MinPerYear
\* later than the run: 2027-03-01
Mar2027 == 2 * MinPerYear + 59 * MinPerDay

\* The pages the ticket API may serve.
SamplePages ==
    { \* the two tickets of the scenario: January, 90 min; February, 10 min
      << Tk("closed", Iso(0), Iso(90), <<Bug>>) >>,
      << Tk("closed", Iso(Feb2025), Iso(Feb2025 + 10), <<Bug, UI>>),
         Tk("open", Iso(Feb2025), Iso(Feb2025 + 20), <<UI>>) >>,
      \* created_at absent, and created_at unparseable
      << Tk("closed", NoStamp, Iso(Dec2025 + 5), <<SU, UI>>),
         Tk("closed", BadStamp, Iso(Feb2025 + 30), <<TagNo(0), <<>>, UI>>) >>,
      \* updated_at absent, unparseable, before the year, exactly at its start
      << Tk("closed", Iso(0), NoStamp, <<Bug>>),
         Tk("closed", Iso(0), BadStamp, <<UI>>),
         Tk("closed", Iso(-120), Iso(-60), <<UI>>),
         Tk("closed", Iso(-60), Iso(0), <<>>) >>,
      \* updated after the run; created after updated (the clamp), with a
      \* repeated label
      << Tk("closed", Iso(Dec2025), Iso(Mar2027), <<CoreSupport, Bug>>),
         Tk("closed", Iso(Dec2025 + 100), Iso(Dec2025 + 40),
            <<TagNo(9), TagNo(9), TagNo(8), SU>>) >>,
      \* closed in December 2025, and in January 2026 with eleven tags
      << Tk("closed", Iso(Dec2025), Iso(Dec2025 + 30), <<UI>>),
         Tk("closed", Iso(Dec2025), Iso(Jan2026 + 1),
            [i \in 1..10 |-> TagNo(i - 1)] \o <<Bug>>) >> }

GetBodies(page) ==
    {[kind |-> "list", items |-> <<>>],
     [kind |-> "other", items |-> <<>>],
     [kind |-> "invalid", items |-> <<>>]}
    \cup (IF page <= MaxPages
          THEN {[kind |-> "list", items |-> p] : p \in SamplePages}
          ELSE {})

\* What session.get returns for a page: an exception of the transport
\* (timeout, retries exhausted), or a response.
GetResponses(page) ==
    {[kind |-> "raise", status |-> 0, body |-> [kind |-> "invalid", items |-> <<>>]]}
    \cup {[kind |-> "http", status |-> 200, body |-> b] : b \in GetBodies(page)}
    \cup {[kind |-> "http", status |-> s, body |-> [kind |-> "other", items |-> <<>>]]
            : s \in {404, 429}}

\* What session.post returns.
PostResponses ==
    {[kind |-> "raise", status |-> 0]}
    \cup {[kind |-> "http", status |-> s] : s \in {200, 304, 401}}

CsvRow(kind, pct, date) == [kind |-> kind, pct |-> pct, date |-> date]
Date202503 == <<"2","0","2","5","-","0","3">>
Date20250415 == <<"2","0","2","5","-","0","4","-","1","5">>
ValueRowA == CsvRow("value", 9550, Date202503)
ValueRowB == CsvRow("value", 8000, <<" ">> \o Date20250415 \o <<" ">>)
ValueRowC == CsvRow("value", 7025, <<"M","a","r">>)
SkipRow == CsvRow("skip", 0, Date202503)
ErrorRow == CsvRow("error", 0, <<>>)

\* CSAT_CSV and the file behind it.
CsvSources ==
    {[path |-> p, rows |-> <<>>] : p \in {"unset", "missing", "unreadable"}}
    \cup {[path |-> "file", rows |-> r] :
            r \in { <<>>, <<SkipRow>>, <<ErrorRow>>,
                    <<ValueRowA>>, <<ValueRowB, SkipRow, ValueRowA>>,
                    <<ValueRowC, ValueRowA>>,
                    <<ValueRowA, ErrorRow>>, <<ValueRowA, ValueRowB, ErrorRow, ValueRowC>> }}

(***************************************************************************)
(* State.                                                                  *)
(***************************************************************************)
VARIABLES
    pc,               \* where the script is
    page,             \* iter_closed_2025: page
    buffer,           \* iter_closed_2025: the items of the page not yet yielded
    resolved_total, res_minutes_all, tag_counts,
    m_counts, m_res_sum, m_res_n,
    payload,
    report,           \* the N of "Pushed N items", -1 before it is printed
    reqs,             \* history: the GETs issued, [page, status, n]
    served,           \* history: the non-empty item lists received
    yielded,          \* history: the tickets the loop has consumed
    csat_src,         \* history: the CSV source the run found
    posts,            \* history: the POSTs issued, [kind, status, n, reqs]
    slugs             \* slugify_tag applied again and again to a name

vars == <<pc, page, buffer, resolved_total, res_minutes_all, tag_counts,
          m_counts, m_res_sum, m_res_n, payload, report, reqs, served,
          yielded, csat_src, posts, slugs>>

accs == <<resolved_total, res_minutes_all, tag_counts, m_counts, m_res_sum, m_res_n>>
hist == <<reqs, served, yielded, csat_src, posts>>

Acc ==
    [resolved_total |-> resolved_total, res_minutes_all |-> res_minutes_all,
     tag_counts |-> tag_counts, m_counts |-> m_counts,
     m_res_sum |-> m_res_sum, m_res_n |-> m_res_n]

NoSource == [path |-> "none", rows |-> <<>>]

InitRun ==
    /\ pc = "get"
    /\ page = 1
    /\ buffer = <<>>
    /\ resolved_total = 0
    /\ res_minutes_all = <<>>
    /\ tag_counts = <<>>
    /\ m_counts = <<>>
    /\ m_res_sum = <<>>
    /\ m_res_n = <<>>
    /\ payload = <<>>
    /\ report = -1
    /\ reqs = <<>>
    /\ served = <<>>
    /\ yielded = <<>>
    /\ csat_src = NoSource
    /\ posts = <<>>

Init == InitRun /\ slugs = <<>>

(***************************************************************************)
(* iter_closed_2025.                                                       *)
(***************************************************************************)
\* What follows a response that is not a first 429: raise_for_status,
\* r.json(), then the page's items or the end of the generator.
HandleResponse(p, r) ==
    IF r.kind = "raise" \/ raise_for_status(r.status) \/ r.body.kind = "invalid"
    THEN /\ reqs' = Append(reqs, [page |-> p, status |-> r.status, n |-> -1])
         /\ pc' = "fatal"
         /\ UNCHANGED <<buffer, served>>
    ELSE /\ reqs' = Append(reqs, [page |-> p, status |-> r.status,
                                  n |-> Len(ItemsOf(r.body))])
         /\ IF ItemsOf(r.body) = <<>>
            THEN pc' = "build" /\ UNCHANGED <<buffer, served>>
            ELSE /\ pc' = "loop"
                 /\ buffer' = ItemsOf(r.body)
                 /\ served' = Append(served, ItemsOf(r.body))

\* session.get of the page; a 429 leads to the sleep and the second get
FetchPage ==
    /\ pc = "get"
    /\ \E r \in GetResponses(page) :
          IF r.kind = "http" /\ r.status = 429
          THEN /\ reqs' = Append(reqs, [page |-> page, status |-> 429, n |-> -1])
               /\ pc' = "retry"
               /\ UNCHANGED <<buffer, served>>
          ELSE HandleResponse(page, r)
    /\ UNCHANGED <<page, accs, payload, report, yielded, csat_src, posts, slugs>>

\* the second session.get, after time.sleep(wait)
RetryAfter429 ==
    /\ pc = "retry"
    /\ \E r \in GetResponses(RetryPage(page)) : HandleResponse(RetryPage(page), r)
    /\ UNCHANGED <<page, accs, payload, report, yielded, csat_src, posts, slugs>>

\* One iteration of "for t in iter_closed_2025()": the generator yields
\* the next item, the body folds it; after the last item of a page the
\* generator moves to the next page.
ProcessTicket ==
    /\ pc = "loop"
    /\ buffer # <<>>
    /\ LET t == Head(buffer)
           new == aggregate(Acc, t)
       IN  /\ resolved_total' = new.resolved_total
           /\ res_minutes_all' = new.res_minutes_all
           /\ tag_counts' = new.tag_counts
           /\ m_counts' = new.m_counts
           /\ m_res_sum' = new.m_res_sum
           /\ m_res_n' = new.m_res_n
           /\ yielded' = Append(yielded, t)
    /\ buffer' = Tail(buffer)
    /\ IF Tail(buffer) = <<>>
       THEN page' = page + 1 /\ pc' = "get"
       ELSE UNCHANGED <<page, pc>>
    /\ UNCHANGED <<payload, report, reqs, served, csat_src, posts, slugs>>

(***************************************************************************)
(* The rest of the script.                                                 *)
(***************************************************************************)
\* avg_resolution_year and the payload up to the monthly averages
Build ==
    /\ pc = "build"
    /\ payload' = BuildPayload(Acc)
    /\ pc' = "csat"
    /\ UNCHANGED <<page, buffer, accs, report, hist, slugs>>

\* push_csat_from_csv_if_present(payload)
Csat ==
    /\ pc = "csat"
    /\ \E src \in CsvSources :
          /\ payload' = push_csat_from_csv_if_present(payload, src)
          /\ csat_src' = src
    /\ pc' = "push"
    /\ UNCHANGED <<page, buffer, accs, report, reqs, served, yielded, posts, slugs>>

\* session.post, raise_for_status, print("Pushed", len(payload), "items")
Push ==
    /\ pc = "push"
    /\ \E r \in PostResponses :
          /\ posts' = Append(posts, [kind |-> r.kind, status |-> r.status,
                                     n |-> Len(payload), reqs |-> Len(reqs)])
          /\ IF r.kind = "raise" \/ raise_for_status(r.status)
             THEN pc' = "fatal" /\ UNCHANGED report
             ELSE pc' = "done" /\ report' = Len(payload)
    /\ UNCHANGED <<page, buffer, accs, payload, reqs, served, yielded, csat_src, slugs>>

Next == FetchPage \/ RetryAfter429 \/ ProcessTicket \/ Build \/ Csat \/ Push

Spec == Init /\ [][Next]_vars

(***************************************************************************)
(* slugify_tag on its own: a name, its slug, the slug of its slug.         *)
(***************************************************************************)
TailChars == {"a", "B", "7", "_", " ", "-"}

RECURSIVE Pad(_)
Pad(n) == IF n = 0 THEN <<>> ELSE <<"a">> \o Pad(n - 1)

Tails == UNION {[1..n -> TailChars] : n \in 0..MaxTail}

\* Names of up to MaxTail characters, alone or after a run of "a" that
\* brings them to the truncation length.
SlugInputs ==
    {Pad(n) \o tl : n \in {0} \cup ((SlugMax - MaxTail)..SlugMax), tl \in Tails}

InitSlug == InitRun /\ slugs \in {<<x>> : x \in SlugInputs}

Slugify ==
    /\ Len(slugs) \in {1, 2}
    /\ slugs' = Append(slugs, slugify_tag(slugs[Len(slugs)]))
    /\ UNCHANGED <<pc, page, buffer, accs, payload, report, hist>>

NextSlug == Slugify

SpecSlug == InitSlug /\ [][NextSlug]_vars

(***************************************************************************)
(* Properties.                                                             *)
(***************************************************************************)
RECURSIVE Flatten(_)
Flatten(ss) == IF ss = <<>> THEN <<>> ELSE Head(ss) \o Flatten(Tail(ss))

Count(s, P(_)) == Cardinality({i \in DOMAIN s : P(s[i])})

RECURSIVE SumFn(_)
SumFn(f) ==
    IF DOMAIN f = {} THEN 0
    ELSE LET k == CHOOSE x \in DOMAIN f : TRUE
         IN  f[k] + SumFn([x \in DOMAIN f \ {k} |-> f[x]])

WithKey(pl, key) == LET Is(r) == r.key = key IN SelectSeq(pl, Is)
Values(recs) == [i \in DOMAIN recs |-> recs[i].value]

Built == pc \in {"csat", "push", "done"} \/ posts # <<>>

----------------------------------------------------------------------------
\* C1: a 429 is followed by a request for the same page and any other
\* answer that is followed by a request is followed by one for the next
\* page; the non-empty pages received are pages 1, 2, ... in order, each
\* once; the tickets yielded are exactly their items, in order (all of
\* them once the generator is not inside a page); and a page is requested
\* once, or twice when its first answer was a 429.
C1_RetrySamePage ==
    /\ reqs # <<>> => reqs[1].page = 1
    /\ \A i \in 1..(Len(reqs) - 1) :
          /\ reqs[i].status = 429 => reqs[i + 1].page = reqs[i].page
          /\ reqs[i].status # 429 =>
                reqs[i].n > 0 /\ reqs[i + 1].page = reqs[i].page + 1
    /\ LET NonEmpty(q) == q.n > 0
           got == SelectSeq(reqs, NonEmpty)
       IN  /\ Len(got) = Len(served)
           /\ \A j \in DOMAIN got : got[j].page = j /\ got[j].n = Len(served[j])
    /\ yielded \o buffer = Flatten(served)
    /\ pc # "loop" => buffer = <<>>
    /\ \A p \in 1..(MaxPages + 1) :
          LET OfPage(q) == q.page = p
              Limited(q) == q.page = p /\ q.status = 429
              Answered(q) == q.page = p /\ q.n >= 0
          IN  /\ Count(reqs, OfPage) <= 2
              /\ Count(reqs, Answered) <= 1
              /\ Count(reqs, Answered) = 1 =>
                    Count(reqs, OfPage) = 1 + Count(reqs, Limited)

\* C1 witness: a run that ended normally in which a page was first
\* answered with 429 and then, on the retry, with its items.
C1_Witness ==
    /\ pc = "done"
    /\ Len(served) = MaxPages
    /\ \E i \in 1..(Len(reqs) - 1) : reqs[i].status = 429 /\ reqs[i + 1].n > 0

----------------------------------------------------------------------------
\* C2: at every point of the aggregation, and after it, the counts of the
\* month buckets sum to resolved_total; in the payload the values of the
\* enchant_resolved_monthly records sum to the value of
\* enchant_resolved_2025_total.
C2_MonthlySumIsTotal ==
    /\ SumFn(m_counts) = resolved_total
    /\ Built =>
          /\ Len(WithKey(payload, "enchant_resolved_2025_total")) = 1
          /\ SumSeq(Values(WithKey(payload, "enchant_resolved_monthly")))
               = WithKey(payload, "enchant_resolved_2025_total")[1].value
          /\ WithKey(payload, "enchant_resolved_2025_total")[1].value = resolved_total

\* C2 witness: a pushed payload with three counted tickets or more, in
\* two months or more, after tickets that were not counted.
C2_Witness ==
    /\ pc = "done"
    /\ resolved_total >= 3
    /\ Cardinality(DOMAIN m_counts) >= 2
    /\ Len(yielded) > resolved_total

----------------------------------------------------------------------------
Unparsed(stamp) == ~parse_iso_z(stamp).ok

\* C3 as stated: a closed ticket with created_at or updated_at missing or
\* unparseable adds one to resolved_total and nothing to res_minutes_all,
\* m_res_sum, m_res_n.
C3_MissingStampCounted ==
    [][(/\ pc = "loop"
        /\ Head(buffer).state = "closed"
        /\ (Unparsed(Head(buffer).created_at) \/ Unparsed(Head(buffer).updated_at)))
       => (/\ resolved_total' = resolved_total + 1
           /\ UNCHANGED <<res_minutes_all, m_res_sum, m_res_n>>)]_vars

\* C3 amended: a closed ticket whose updated_at parses and is not before
\* the year start, and whose created_at is missing or unparseable, adds
\* one to resolved_total and to its month's count and nothing to
\* res_minutes_all, m_res_sum, m_res_n; a ticket whose updated_at is
\* missing or unparseable changes no accumulator at all.
C3_MissingCreatedCounted ==
    [][/\ (/\ pc = "loop"
           /\ Counted(Head(buffer))
           /\ Unparsed(Head(buffer).created_at))
          => (/\ resolved_total' = resolved_total + 1
              /\ SumFn(m_counts') = SumFn(m_counts) + 1
              /\ UNCHANGED <<res_minutes_all, m_res_sum, m_res_n>>)
       /\ (/\ pc = "loop"
           /\ Unparsed(Head(buffer).updated_at))
          => UNCHANGED accs]_vars

\* C3 witness: the loop has consumed a counted ticket without created_at
\* and a closed ticket without updated_at.
C3_Witness ==
    /\ \E i \in DOMAIN yielded :
          Counted(yielded[i]) /\ Unparsed(yielded[i].created_at)
    /\ \E i \in DOMAIN yielded :
          yielded[i].state = "closed" /\ Unparsed(yielded[i].updated_at)
    /\ resolved_total > Len(res_minutes_all)

----------------------------------------------------------------------------
CharDigit(c) == (CHOOSE i \in DOMAIN DigitSeq : DigitSeq[i] = c) - 1

\* the month a "YYYY-MM-..." date names, as a number of months
MonthNo(d) ==
    12 * (1000 * CharDigit(d[1]) + 100 * CharDigit(d[2])
          + 10 * CharDigit(d[3]) + CharDigit(d[4]))
    + 10 * CharDigit(d[6]) + CharDigit(d[7])

Chronological(recs) ==
    \A i \in 1..(Len(recs) - 1) : MonthNo(recs[i].date) < MonthNo(recs[i + 1].date)

InGroupOrder(pl, Group(_)) ==
    \A i \in 1..(Len(pl) - 1) : Group(pl[i].key) <= Group(pl[i + 1].key)

\* the groups of the payload in the order the specification lists them
SpecGroup(key) ==
    CASE key = "enchant_resolved_2025_total" -> 1
      [] key = "enchant_resolution_minutes_avg_2025" -> 2
      [] key = "enchant_csat_avg_2025" -> 3
      [] key = "enchant_tag__2025_count" -> 4
      [] key = "enchant_resolved_monthly" -> 5
      [] key = "enchant_resolution_minutes_avg_monthly" -> 6
      [] key = "enchant_csat_avg_monthly" -> 7

\* the groups in the order the script appends them
CodeGroup(key) ==
    CASE key = "enchant_resolved_2025_total" -> 1
      [] key = "enchant_resolution_minutes_avg_2025" -> 2
      [] key = "enchant_tag__2025_count" -> 3
      [] key = "enchant_resolved_monthly" -> 4
      [] key = "enchant_resolution_minutes_avg_monthly" -> 5
      [] key = "enchant_csat_avg_monthly" -> 6
      [] key = "enchant_csat_avg_2025" -> 7

SeriesChronological(pl) ==
    /\ Chronological(WithKey(pl, "enchant_resolved_monthly"))
    /\ Chronological(WithKey(pl, "enchant_resolution_minutes_avg_monthly"))

----------------------------------------------------------------------------
CsatKeys == {"enchant_csat_avg_monthly", "enchant_csat_avg_2025"}

Degraded(src) ==
    \/ src.path \in {"unset", "missing", "unreadable"}
    \/ src.path = "file" /\ \E i \in DOMAIN src.rows : src.rows[i].kind = "error"

\* C5: when CSAT_CSV is unset, the file is missing or reading it fails at
\* any row, the payload holds no CSAT record and is the payload built
\* from the tickets, and the run goes on to the push.
C5_CsatOmittedOnFailure ==
    Degraded(csat_src) =>
       /\ \A i \in DOMAIN payload : payload[i].key \notin CsatKeys
       /\ payload = BuildPayload(Acc)
       /\ pc = "push" \/ posts # <<>>

----------------------------------------------------------------------------
\* C6: slugify_tag is idempotent: the slug of a slug is that slug.
C6_SlugIdempotent == Len(slugs) = 3 => slugs[3] = slugs[2]

----------------------------------------------------------------------------
\* the window of the specification: from the year start to the run
InWindow(t) ==
    /\ t.state = "closed"
    /\ parse_iso_z(t.updated_at).ok
    /\ parse_iso_z(t.updated_at).t >= year_start_dt.t
    /\ parse_iso_z(t.updated_at).t <= NowT

\* C7: a ticket that is not closed, or whose updated_at does not parse or
\* lies before the year start or after now, changes no accumulator.
C7_OnlyWindowCounts ==
    [][(pc = "loop" /\ ~InWindow(Head(buffer))) => UNCHANGED accs]_vars

----------------------------------------------------------------------------
\* C8: no name of EXCLUDED_TAGS is in tag_counts; the tag records of the
\* payload are at most 10, in non-increasing order of count, carry the 10
\* highest counts of tag_counts, and each of them is the slug and count of
\* a counted tag.
C8_TopTags ==
    /\ \A i \in DOMAIN tag_counts :
          /\ tag_counts[i].name \notin EXCLUDED_TAGS
          /\ \A j \in DOMAIN tag_counts : tag_counts[j].name = tag_counts[i].name => j = i
    /\ Built =>
          LET recs == WithKey(payload, "enchant_tag__2025_count")
          IN  /\ Len(recs) <= 10
              /\ Len(recs) = Min(10, Len(tag_counts))
              /\ \A i \in 1..(Len(recs) - 1) : recs[i].value >= recs[i + 1].value
              /\ \A v \in {tag_counts[j].cnt : j \in DOMAIN tag_counts} :
                    Cardinality({i \in DOMAIN recs : recs[i].value >= v})
                      = Min(10, Cardinality({j \in DOMAIN tag_counts : tag_counts[j].cnt >= v}))
              /\ \A i \in DOMAIN recs : \E j \in DOMAIN tag_counts :
                    /\ recs[i].value = tag_counts[j].cnt
                    /\ recs[i].slug = slugify_tag(tag_counts[j].name)

\* C8 witness: a pushed payload built from more than 10 distinct tags
\* with different counts, after a counted ticket that carried an excluded
\* tag.
C8_Witness ==
    /\ pc = "done"
    /\ Len(tag_counts) > 10
    /\ \E i, j \in DOMAIN tag_counts : tag_counts[i].cnt # tag_counts[j].cnt
    /\ \E i \in DOMAIN yielded :
          /\ Counted(yielded[i])
          /\ \E k \in DOMAIN yielded[i].labels : yielded[i].labels[k] \in EXCLUDED_TAGS

----------------------------------------------------------------------------
\* a success status: 2xx
Success(p) == p.kind = "http" /\ p.status >= 200 /\ p.status < 300

\* C9: a POST that did not return a success status ends the run in a
\* fatal error without the success report; the report is printed only
\* after a POST that returned a success status, and gives the number of
\* records sent.
C9_AllOrNothing ==
    /\ \A i \in DOMAIN posts :
          ~Success(posts[i]) => pc = "fatal" /\ report = -1
    /\ report # -1 =>
          /\ posts # <<>>
          /\ Success(posts[Len(posts)])
          /\ report = posts[Len(posts)].n
          /\ report = Len(payload)

----------------------------------------------------------------------------
====
